---- MODULE Spec2Model ----
(***************************************************************************)
(* Model of src/wrappers.py: the dm_control -> gym adapters (Wrapper,      *)
(* dmWrapper, depthMapWrapper) and the FrameSkip wrapper.                  *)
(*                                                                         *)
(* Numbers are integers.  np.float32 is modelled by F32, the rounding of   *)
(* an integer to the nearest value with a 24-bit significand (ties to      *)
(* even), which is what IEEE-754 binary32 does on integers.                *)
(***************************************************************************)
EXTENDS Integers, Sequences, FiniteSets, TLC

VARIABLES
    \* ---- depthMapWrapper._segmentation, called on its own ----
    pc,          \* the tensor handed to _segmentation (sequence of points)
    points,      \* self.points
    seg_pc,      \* "input" | "output" | "again"
    seg_filt,    \* local pc after the distance filter (line 127)
    seg_ind,     \* local ind (line 131), <<>> when randperm is not called
    seg_out,     \* value returned by _segmentation(pc)
    seg_out2,    \* value returned by _segmentation(seg_out)
    \* ---- FrameSkip ----
    fn,          \* self.fn
    fs_pc,       \* "idle" | "loop" | "return"
    fs_i,        \* number of loop iterations completed in the current call
    fs_R,        \* local R
    fs_cur,      \* locals next_obs, reward, done, info of the last env.step
    fs_sub,      \* results of the env.step calls made during the current call
    fs_ret,      \* value returned by the last completed step / reset call
    \* ---- Wrapper / dmWrapper / depthMapWrapper over a dm_control env ----
    w_kind,      \* class of the wrapper object
    return_pos,  \* self.return_pos (depthMapWrapper)
    w_pc,        \* "idle" | "stepped" | "observed"
    w_call,      \* "none" | "step" | "reset": the call in progress / last made
    physics,     \* env.physics: [tick, scene]
    timestamp,   \* local timestamp: the TimeStep returned by env.step / env.reset
    w_obs,       \* local obs
    w_depth,     \* local depth of depthMapWrapper.observation
    w_envcalls,  \* env.step / env.reset calls made during the current call
    w_renders,   \* physics.render calls made during the current call
    w_tick0,     \* physics.tick when the current call was entered
    w_ret        \* value returned by the last completed step / reset call

segRest == <<pc, seg_pc, seg_filt, seg_ind, seg_out, seg_out2>>
segVars == <<points, segRest>>
fsVars  == <<fn, fs_pc, fs_i, fs_R, fs_cur, fs_sub, fs_ret>>
wVars   == <<w_kind, return_pos, w_pc, w_call, physics, timestamp, w_obs,
             w_depth, w_envcalls, w_renders, w_tick0, w_ret>>
vars    == <<segVars, fsVars, wVars>>

----------------------------------------------------------------------------
\* Bounds of the model.
MaxLen    == 3    \* longest point cloud handed to _segmentation
MaxPoints == 2    \* largest configured self.points
PointDim  == 3    \* trailing dimension of a point cloud tensor
MaxFn     == 2    \* largest configured frames_number
MaxTicks  == 2    \* env.step / env.reset calls made on the dm_control env

----------------------------------------------------------------------------
\* Python's None, and the depth local before any render.
None == [type |-> "NoneType"]
NoDepth == [tick |-> -1, scene |-> <<>>]

\* np.float32 on integers.

Abs(x) == IF x < 0 THEN -x ELSE x

RECURSIVE Ulp(_, _)
Ulp(a, u) == IF a < (2^24) * u THEN u ELSE Ulp(a, 2 * u)

F32(x) ==
    LET a == Abs(x)
        u == Ulp(a, 1)
        q == a \div u
        r == a % u
        n == IF 2 * r < u THEN q
             ELSE IF 2 * r > u THEN q + 1
             ELSE IF q % 2 = 0 THEN q ELSE q + 1
    IN  IF x < 0 THEN -(n * u) ELSE n * u

----------------------------------------------------------------------------
\* depthMapWrapper._segmentation

dist_thresh == 19

XVals == {0, 1}
ZVals == {0, 18, 19, 25}

\* Points of the modelled clouds: coordinate 1 and the depth coordinate vary.
PointSet ==
    {p \in [1..PointDim -> XVals \cup ZVals] :
        /\ p[1] \in XVals
        /\ p[3] \in ZVals
        /\ \A j \in 1..PointDim : (j # 1 /\ j # 3) => p[j] = 0}

Clouds == UNION {[1..n -> PointSet] : n \in 0..MaxLen}

\* pc[pc[..., 2] < dist_thresh]
\* (variant: <= in place of <)
DistFilter_keepAtThreshold(cloud) == SelectSeq(cloud, LAMBDA p : p[3] <= dist_thresh)
DistFilter(cloud) == SelectSeq(cloud, LAMBDA p : p[3] < dist_thresh)

\* torch.randperm(n): every permutation of 0..n-1 is a possible outcome.
\* (variant: indices drawn with replacement, as torch.randint would)
randperm_withReplacement(n) == [1..n -> 0..(n - 1)]
randperm(n) ==
    {s \in [1..n -> 0..(n - 1)] : \A i, j \in 1..n : s[i] = s[j] => i = j}

\* torch.randperm(amount)[:self.points]
PermPrefix(perm) == SubSeq(perm, 1, points)

\* torch.index_select(pc, -2, ind), ind holding 0-based row indices
index_select(cloud, ind) == [k \in 1..Len(ind) |-> cloud[ind[k] + 1]]

\* torch.zeros(n, *pc.shape[1:])
zeros(n) == [k \in 1..n |-> [j \in 1..PointDim |-> 0]]

\* torch.cat([pc, zeros])
\* (variant: torch.cat([zeros, pc]))
cat_padFirst(a, b) == b \o a
cat(a, b) == a \o b

\* The resampling branch of _segmentation (lines 128-136) on the filtered
\* cloud, with ind the index tensor drawn on line 131.
\* (variant: the elif branch of lines 133-135 missing)
Resample_noPad(filt, ind) ==
    IF points # 0 /\ Len(filt) > points THEN index_select(filt, ind) ELSE filt

\* amount >= self.points on line 130: a cloud of exactly points rows is
\* permuted too (here by the reversing outcome of randperm)
Resample_permuteAtEqual(filt, ind) ==
    IF points # 0
    THEN LET amount == Len(filt)
         IN  IF amount > points THEN index_select(filt, ind)
             ELSE IF amount = points
                  THEN index_select(filt, [k \in 1..amount |-> amount - k])
             ELSE cat(filt, zeros(points - amount))
    ELSE filt

Resample(filt, ind) ==
    IF points # 0
    THEN LET amount == Len(filt)
         IN  IF amount > points THEN index_select(filt, ind)
             ELSE IF amount < points THEN cat(filt, zeros(points - amount))
             ELSE filt
    ELSE filt

\* The index tensors line 131 can produce for a filtered cloud.
IndChoices(filt) ==
    IF points # 0 /\ Len(filt) > points
    THEN {PermPrefix(perm) : perm \in randperm(Len(filt))}
    ELSE {<<>>}

_segmentation(cloud, ind) == Resample(DistFilter(cloud), ind)

SegInit ==
    /\ pc \in Clouds
    /\ points \in 0..MaxPoints
    /\ seg_pc = "input"
    /\ seg_filt = <<>>
    /\ seg_ind = <<>>
    /\ seg_out = <<>>
    /\ seg_out2 = <<>>
    /\ fn = 1
    /\ fs_pc = "unused"
    /\ fs_i = 0
    /\ fs_R = 0
    /\ fs_cur = None
    /\ fs_sub = <<>>
    /\ fs_ret = <<>>
    /\ w_kind = "unused"
    /\ return_pos = FALSE
    /\ w_pc = "unused"
    /\ w_call = "none"
    /\ physics = [tick |-> 0, scene |-> <<>>]
    /\ timestamp = None
    /\ w_obs = None
    /\ w_depth = NoDepth
    /\ w_envcalls = 0
    /\ w_renders = 0
    /\ w_tick0 = 0
    /\ w_ret = <<>>

\* out = self._segmentation(pc)
SegCall ==
    /\ seg_pc = "input"
    /\ \E ind \in IndChoices(DistFilter(pc)) :
          /\ seg_filt' = DistFilter(pc)
          /\ seg_ind' = ind
          /\ seg_out' = _segmentation(pc, ind)
    /\ seg_pc' = "output"
    /\ UNCHANGED <<pc, points, seg_out2>>
    /\ UNCHANGED <<fsVars, wVars>>

\* self._segmentation(out): the routine applied to its own output
SegAgain ==
    /\ seg_pc = "output"
    /\ \E ind \in IndChoices(DistFilter(seg_out)) :
          seg_out2' = _segmentation(seg_out, ind)
    /\ seg_pc' = "again"
    /\ UNCHANGED <<pc, points, seg_filt, seg_ind, seg_out>>
    /\ UNCHANGED <<fsVars, wVars>>

----------------------------------------------------------------------------
\* FrameSkip over a gym-style environment.

FsObsVals    == {3, 2^24 + 1}
FsRewardVals == {0, 1, 2^24}
FsInfoVals   == {"info_a", "info_b"}

\* What self.env.step(action) can return: the inner environment is a black box.
EnvResults ==
    [obs : FsObsVals, reward : FsRewardVals, done : BOOLEAN, info : FsInfoVals]

FsInit ==
    /\ fn \in 1..MaxFn
    /\ fs_pc = "idle"
    /\ fs_i = 0
    /\ fs_R = 0
    /\ fs_cur = [obs |-> 3, reward |-> 0, done |-> FALSE, info |-> "info_a"]
    /\ fs_sub = <<>>
    /\ fs_ret = <<>>
    /\ pc = <<>>
    /\ seg_pc = "unused"
    /\ seg_filt = <<>>
    /\ seg_ind = <<>>
    /\ seg_out = <<>>
    /\ seg_out2 = <<>>
    /\ points = 0
    /\ w_kind = "unused"
    /\ return_pos = FALSE
    /\ w_pc = "unused"
    /\ w_call = "none"
    /\ physics = [tick |-> 0, scene |-> <<>>]
    /\ timestamp = None
    /\ w_obs = None
    /\ w_depth = NoDepth
    /\ w_envcalls = 0
    /\ w_renders = 0
    /\ w_tick0 = 0
    /\ w_ret = <<>>

\* R = 0 (line 86)
\* (variant: R kept from the previous call)
R_start_carried == fs_R
R_start == 0

\* R += reward (line 89)
Accumulate(R, reward) == R + reward

\* Whether the for loop is left after an iteration: the break on done
\* (lines 90-91) or range(self.fn) exhausted (line 87); i counts the
\* iterations made so far.
\* (variant: no break on done)
LoopExit_noBreak(done, i) == i = fn
LoopExit(done, i) == done \/ i = fn

\* FrameSkip.step entered (lines 85-86)
FsStepBegin ==
    /\ fs_pc = "idle"
    /\ fs_R' = R_start
    /\ fs_i' = 0
    /\ fs_sub' = <<>>
    /\ fs_ret' = <<>>
    /\ fs_pc' = "loop"
    /\ UNCHANGED <<fn, fs_cur>>
    /\ UNCHANGED <<segVars, wVars>>

\* One iteration of the for loop (lines 87-91)
FsIterate ==
    /\ fs_pc = "loop"
    /\ fs_i < fn
    /\ \E res \in EnvResults :
          /\ fs_cur' = res
          /\ fs_sub' = Append(fs_sub, res)
          /\ fs_R' = Accumulate(fs_R, res.reward)
          /\ fs_i' = fs_i + 1
          /\ fs_pc' = IF LoopExit(res.done, fs_i + 1) THEN "return" ELSE "loop"
    /\ UNCHANGED <<fn, fs_ret>>
    /\ UNCHANGED <<segVars, wVars>>

\* return np.float32(next_obs), np.float32(R), done, info (line 92)
StepResult == <<F32(fs_cur.obs), F32(fs_R), fs_cur.done, fs_cur.info>>

FsStepReturn ==
    /\ fs_pc = "return"
    /\ fs_ret' = StepResult
    /\ fs_pc' = "idle"
    /\ UNCHANGED <<fn, fs_i, fs_R, fs_cur, fs_sub>>
    /\ UNCHANGED <<segVars, wVars>>

\* FrameSkip.reset (lines 94-95)
FsReset ==
    /\ fs_pc = "idle"
    /\ \E o \in FsObsVals : fs_ret' = <<F32(o)>>
    /\ fs_sub' = <<>>
    /\ UNCHANGED <<fn, fs_pc, fs_i, fs_R, fs_cur>>
    /\ UNCHANGED <<segVars, wVars>>

----------------------------------------------------------------------------
\* Python values handled by Wrapper and its subclasses.  Every value is a
\* record tagged with its type, so values of different types are unequal.

PyFloat(v) == [type |-> "float", value |-> v]
Float32(v) == [type |-> "float32", value |-> v]
Float32NaN == [type |-> "float32", nan |-> TRUE]
NdArray(dtype, ndim, data) ==
    [type |-> "ndarray", dtype |-> dtype, ndim |-> ndim, data |-> data]
Tensor(rows) == [type |-> "Tensor", rows |-> rows]
PyTuple(elems) == [type |-> "tuple", elems |-> elems]
OrderedDict(items) == [type |-> "OrderedDict", items |-> items]
TimeStep(step_type, reward, observation) ==
    [type |-> "TimeStep", step_type |-> step_type, reward |-> reward,
     observation |-> observation]

\* np.float32(x) of a Python number or of None
\* (variant: the reward passed through unconverted)
np_float32_keep(x) == x
np_float32(x) ==
    IF x.type = "NoneType" THEN Float32NaN ELSE Float32(F32(x.value))

\* The dm_control environment under the wrapper (a black box): the
\* structured observations, rewards and timesteps it can produce.
ObsDicts ==
    { OrderedDict(<< [key |-> "position", value |-> NdArray("float64", 1, <<1, 2>>)],
                     [key |-> "height",   value |-> NdArray("float64", 0, <<2^24 + 1>>)] >>),
      OrderedDict(<< [key |-> "position", value |-> NdArray("float64", 1, <<3>>)] >>) }

WRewardVals == {PyFloat(0), PyFloat(2^24 + 1)}

\* env.step: a MID or LAST timestep with a reward, or (a step made after
\* the episode ended restarts it) a FIRST timestep whose reward is None.
StepTimeSteps ==
    {TimeStep(t, r, o) : t \in {"MID", "LAST"}, r \in WRewardVals, o \in ObsDicts}
        \cup {TimeStep("FIRST", None, o) : o \in ObsDicts}

\* env.reset: a FIRST timestep, reward None.
ResetTimeSteps == {TimeStep("FIRST", None, o) : o \in ObsDicts}

\* The scenes the physics can be in, each given by the cloud its depth
\* render unprojects to.
ScenePoint(x, z) == [j \in 1..PointDim |-> IF j = 1 THEN x ELSE IF j = 3 THEN z ELSE 0]
WScenes ==
    { <<>>,
      <<ScenePoint(1, 25)>>,
      [i \in 1..MaxLen |-> ScenePoint(i, IF i % 2 = 1 THEN 18 ELSE 25)] }

\* self.env.physics.render(**self._depth_kwargs): the depth image of the
\* physics state it is called on.
render(phys) == [tick |-> phys.tick, scene |-> phys.scene]

\* self.pcg.get_PC(depth)
get_PC(depth) == Tensor(depth.scene)

\* self.env.physics.position()
position(phys) == NdArray("float64", 1, <<phys.tick>>)

\* Wrapper.observation (lines 18-19)
Wrapper_observation(ts) == ts

\* dmWrapper.observation (lines 71-77)
RECURSIVE Flatten(_)
Flatten(items) ==
    IF items = <<>> THEN <<>>
    ELSE Flatten(SubSeq(items, 1, Len(items) - 1))
            \o items[Len(items)].value.data

dmWrapper_observation(ts) ==
    LET flat == Flatten(ts.observation.items)
    IN  NdArray("float32", 1, [k \in 1..Len(flat) |-> F32(flat[k])])

\* depthMapWrapper.observation (lines 116-123), given the depth image and
\* the index tensor _segmentation draws
depthMap_observation(depth, ind) ==
    LET cloud == _segmentation(get_PC(depth).rows, ind)
    IN  IF return_pos
        THEN PyTuple(<<Tensor(cloud), position(physics)>>)
        ELSE NdArray("float32", 2, cloud)

\* Wrapper.reward (lines 21-22)
Wrapper_reward(ts) == np_float32(ts.reward)

\* Wrapper.done (lines 24-25)
Wrapper_done(ts) == ts.step_type = "LAST"

WInit ==
    /\ w_kind \in {"Wrapper", "dmWrapper", "depthMapWrapper"}
    /\ return_pos \in (IF w_kind = "depthMapWrapper" THEN BOOLEAN ELSE {FALSE})
    /\ points \in (IF w_kind = "depthMapWrapper" THEN 0..MaxPoints ELSE {0})
    /\ w_pc = "idle"
    /\ w_call = "none"
    /\ physics \in [tick : {0}, scene : WScenes]
    /\ timestamp = None
    /\ w_obs = None
    /\ w_depth = NoDepth
    /\ w_envcalls = 0
    /\ w_renders = 0
    /\ w_tick0 = 0
    /\ w_ret = <<>>
    /\ pc = <<>>
    /\ seg_pc = "unused"
    /\ seg_filt = <<>>
    /\ seg_ind = <<>>
    /\ seg_out = <<>>
    /\ seg_out2 = <<>>
    /\ fn = 1
    /\ fs_pc = "unused"
    /\ fs_i = 0
    /\ fs_R = 0
    /\ fs_cur = None
    /\ fs_sub = <<>>
    /\ fs_ret = <<>>

\* Wrapper.step entered: timestamp = self.env.step(action) (line 28)
WStepEnv ==
    /\ w_pc = "idle"
    /\ physics.tick < MaxTicks
    /\ \E ts \in StepTimeSteps, sc \in WScenes :
          /\ timestamp' = ts
          /\ physics' = [tick |-> physics.tick + 1, scene |-> sc]
    /\ w_call' = "step"
    /\ w_envcalls' = 1
    /\ w_renders' = 0
    /\ w_tick0' = physics.tick
    /\ w_ret' = <<>>
    /\ w_pc' = "stepped"
    /\ UNCHANGED <<w_kind, return_pos, points, w_obs, w_depth>>
    /\ UNCHANGED <<segRest, fsVars>>

\* Wrapper.reset entered: self.env.reset() (line 35)
WResetEnv ==
    /\ w_pc = "idle"
    /\ physics.tick < MaxTicks
    /\ \E ts \in ResetTimeSteps, sc \in WScenes :
          /\ timestamp' = ts
          /\ physics' = [tick |-> physics.tick + 1, scene |-> sc]
    /\ w_call' = "reset"
    /\ w_envcalls' = 1
    /\ w_renders' = 0
    /\ w_tick0' = physics.tick
    /\ w_ret' = <<>>
    /\ w_pc' = "stepped"
    /\ UNCHANGED <<w_kind, return_pos, points, w_obs, w_depth>>
    /\ UNCHANGED <<segRest, fsVars>>

\* self.observation(timestamp) (lines 29, 35), dispatched on the class
\* (variant: the depth image rendered once and cached across calls)
WObserve_cachedDepth ==
    /\ w_pc = "stepped"
    /\ IF w_kind = "depthMapWrapper"
       THEN LET depth == IF w_depth = NoDepth THEN render(physics) ELSE w_depth
            IN  /\ w_depth' = depth
                /\ w_renders' = IF w_depth = NoDepth THEN w_renders + 1 ELSE w_renders
                /\ \E ind \in IndChoices(DistFilter(get_PC(depth).rows)) :
                      w_obs' = depthMap_observation(depth, ind)
       ELSE /\ w_obs' = IF w_kind = "dmWrapper" THEN dmWrapper_observation(timestamp)
                        ELSE Wrapper_observation(timestamp)
            /\ UNCHANGED <<w_depth, w_renders>>
    /\ w_pc' = "observed"
    /\ UNCHANGED <<w_kind, return_pos, points, w_call, physics, timestamp,
                   w_envcalls, w_tick0, w_ret>>
    /\ UNCHANGED <<segRest, fsVars>>

WObserve ==
    /\ w_pc = "stepped"
    /\ IF w_kind = "depthMapWrapper"
       THEN LET depth == render(physics)
            IN  /\ w_depth' = depth
                /\ w_renders' = w_renders + 1
                /\ \E ind \in IndChoices(DistFilter(get_PC(depth).rows)) :
                      w_obs' = depthMap_observation(depth, ind)
       ELSE /\ w_obs' = IF w_kind = "dmWrapper" THEN dmWrapper_observation(timestamp)
                        ELSE Wrapper_observation(timestamp)
            /\ UNCHANGED <<w_depth, w_renders>>
    /\ w_pc' = "observed"
    /\ UNCHANGED <<w_kind, return_pos, points, w_call, physics, timestamp,
                   w_envcalls, w_tick0, w_ret>>
    /\ UNCHANGED <<segRest, fsVars>>

\* r, d and the return of step (lines 30-32); the return of reset (line 35)
WReturn ==
    /\ w_pc = "observed"
    /\ w_ret' = IF w_call = "step"
                THEN <<w_obs, Wrapper_reward(timestamp), Wrapper_done(timestamp), None>>
                ELSE <<w_obs>>
    /\ w_pc' = "idle"
    /\ UNCHANGED <<w_kind, return_pos, points, w_call, physics, timestamp, w_obs,
                   w_depth, w_envcalls, w_renders, w_tick0>>
    /\ UNCHANGED <<segRest, fsVars>>

----------------------------------------------------------------------------
\* Specifications: one per component, the other components' variables idle.

SegNext == SegCall \/ SegAgain
SpecSeg == SegInit /\ [][SegNext]_vars

FsNext == FsStepBegin \/ FsIterate \/ FsStepReturn \/ FsReset
SpecFs == FsInit /\ [][FsNext]_vars

WNext == WStepEnv \/ WResetEnv \/ WObserve \/ WReturn
SpecW == WInit /\ [][WNext]_vars

----------------------------------------------------------------------------
\* Properties of _segmentation (checked under SpecSeg).

SegDone == seg_pc \in {"output", "again"}
ZeroPoint == [j \in 1..PointDim |-> 0]

\* C1: for every points = P > 0 and every input cloud, also one no point of
\* which survives the distance filter, _segmentation returns exactly P points.
C1_OutputHasPoints ==
    (SegDone /\ points > 0) => Len(seg_out) = points

\* an input with points in it, none of which survives the filter
C1_Witness ==
    /\ seg_pc = "output"
    /\ points > 0
    /\ Len(pc) > 0
    /\ Len(seg_filt) = 0
    /\ Len(seg_out) = points

\* C4: the distance filter keeps exactly the input points whose third
\* coordinate is strictly below 19, in their original order; a point at
\* exactly 19 is dropped.
C4_FilterKeepsBelowThreshold ==
    SegDone =>
        LET kept == {i \in 1..Len(pc) : pc[i][3] < 19}
        IN  /\ Len(seg_filt) = Cardinality(kept)
            /\ \E f \in [1..Len(seg_filt) -> 1..Len(pc)] :
                  /\ \A a, b \in 1..Len(seg_filt) : a < b => f[a] < f[b]
                  /\ {f[k] : k \in 1..Len(seg_filt)} = kept
                  /\ \A k \in 1..Len(seg_filt) : seg_filt[k] = pc[f[k]]
            /\ \A k \in 1..Len(seg_filt) : seg_filt[k][3] # 19

\* a point at exactly 19 between two nearer, different points
C4_Witness ==
    /\ seg_pc = "output"
    /\ Len(pc) = 3
    /\ pc[1][3] = 18 /\ pc[2][3] = 19 /\ pc[3][3] = 0
    /\ seg_filt = <<pc[1], pc[3]>>

C6_SubsampleDistinctIndices ==
    (SegDone /\ points > 0 /\ Len(seg_filt) > points) =>
        /\ Len(seg_ind) = points
        /\ Len(seg_out) = points
        /\ \A k \in 1..points : seg_ind[k] \in 0..(Len(seg_filt) - 1)
        /\ \A a, b \in 1..points : seg_ind[a] = seg_ind[b] => a = b
        /\ \A k \in 1..points : seg_out[k] = seg_filt[seg_ind[k] + 1]

\* three filtered points, the last and the first of them selected
C6_Witness ==
    /\ seg_pc = "output"
    /\ points = 2
    /\ Len(seg_filt) = 3
    /\ seg_ind = <<2, 0>>
    /\ seg_out = <<seg_filt[3], seg_filt[1]>>
    /\ seg_filt[3] # seg_filt[1]

\* C10: a filtered cloud of exactly P points is returned unchanged, and
\* _segmentation applied to any of its own outputs returns that output.
C10_Idempotent ==
    /\ (SegDone /\ points > 0 /\ Len(seg_filt) = points) => seg_out = seg_filt
    /\ (seg_pc = "again" /\ points > 0) => seg_out2 = seg_out

\* an output holding a padding point is handed back to _segmentation
C10_Witness ==
    /\ seg_pc = "again"
    /\ points > 0
    /\ 0 < Len(seg_filt) /\ Len(seg_filt) < points
    /\ seg_out[points] = ZeroPoint
    /\ seg_out2 = seg_out

----------------------------------------------------------------------------
\* Properties of FrameSkip (checked under SpecFs).

RECURSIVE SumRewards(_)
SumRewards(sub) ==
    IF sub = <<>> THEN 0
    ELSE SumRewards(SubSeq(sub, 1, Len(sub) - 1)) + sub[Len(sub)].reward

FsReturned == fs_pc = "idle" /\ Len(fs_ret) = 4
FsInCall == fs_pc \in {"loop", "return"}

\* The sub-steps of a call are those up to and including the first that
\* reports termination, or all fn of them.
FsSubStepsOfCall ==
    /\ Len(fs_sub) >= 1
    /\ Len(fs_sub) <= fn
    /\ \A k \in 1..(Len(fs_sub) - 1) : ~fs_sub[k].done
    /\ fs_sub[Len(fs_sub)].done \/ Len(fs_sub) = fn

\* C2 as stated: the reward a FrameSkip.step call returns equals the sum of
\* the rewards of the sub-steps executed during that call, the accumulator
\* starting from zero in every call.
C2_RewardIsSum ==
    /\ FsInCall => fs_R = SumRewards(fs_sub)
    /\ FsReturned => /\ FsSubStepsOfCall
                     /\ fs_ret[2] = SumRewards(fs_sub)

\* C2 amended: the reward returned is that sum converted to 32-bit float.
C2_RewardIsFloat32OfSum ==
    /\ FsInCall => fs_R = SumRewards(fs_sub)
    /\ FsReturned => /\ FsSubStepsOfCall
                     /\ fs_ret[2] = F32(SumRewards(fs_sub))

\* two sub-steps whose rewards sum to 2^24 + 1, returned as 2^24
C2_Witness ==
    /\ FsReturned
    /\ Len(fs_sub) = 2
    /\ fs_sub[1].reward = 1
    /\ fs_sub[2].reward = 2^24
    /\ fs_ret[2] = 2^24

\* What C3 says of the env.step calls of one FrameSkip.step call: at most fn,
\* none after one that reports termination; done returned is the last
\* sub-step's, and without termination all fn sub-steps run and done is false.
FsLoopDiscipline ==
    /\ FsInCall =>
          /\ Len(fs_sub) = fs_i
          /\ fs_i <= fn
          /\ \A k \in 1..(Len(fs_sub) - 1) : ~fs_sub[k].done
          /\ (fs_pc = "loop" /\ fs_i > 0) => ~fs_sub[fs_i].done
    /\ FsReturned =>
          /\ Len(fs_sub) \in 1..fn
          /\ \A k \in 1..(Len(fs_sub) - 1) : ~fs_sub[k].done
          /\ fs_ret[3] = fs_sub[Len(fs_sub)].done
          /\ (\A k \in 1..Len(fs_sub) : ~fs_sub[k].done) =>
                (Len(fs_sub) = fn /\ fs_ret[3] = FALSE)
          /\ fs_ret[4] = fs_sub[Len(fs_sub)].info

\* C3 as stated: ... and the returned observation and info are those of the
\* last executed sub-step.
C3_LoopAndLastSubStep ==
    /\ FsLoopDiscipline
    /\ FsReturned => fs_ret[1] = fs_sub[Len(fs_sub)].obs

\* C3 amended: the returned observation is the last executed sub-step's
\* observation converted to 32-bit float; info is that sub-step's, unmodified.
C3_LoopAndLastSubStepFloat32 ==
    /\ FsLoopDiscipline
    /\ FsReturned => fs_ret[1] = F32(fs_sub[Len(fs_sub)].obs)

\* fn = 2, the first sub-step terminates: one inner step, done returned, its
\* observation 2^24 + 1 returned as 2^24
C3_Witness ==
    /\ FsReturned
    /\ fn >= 2
    /\ Len(fs_sub) = 1
    /\ fs_sub[1].done
    /\ fs_sub[1].obs = 2^24 + 1
    /\ fs_ret[1] = 2^24
    /\ fs_ret[3] = TRUE
    /\ fs_ret[4] = fs_sub[1].info

----------------------------------------------------------------------------
\* Properties of Wrapper and its subclasses (checked under SpecW).

WReturned == w_pc = "idle" /\ w_call # "none"

\* C7: every Wrapper.step call steps the underlying environment exactly once
\* and returns a 4-tuple: info None, done the last() of the timestep that
\* step returned, reward that timestep's reward converted to 32-bit float.
C7_StepTuple ==
    (WReturned /\ w_call = "step") =>
        /\ w_envcalls = 1
        /\ physics.tick = w_tick0 + 1
        /\ Len(w_ret) = 4
        /\ w_ret[4] = None
        /\ w_ret[3] = (timestamp.step_type = "LAST")
        /\ w_ret[2].type = "float32"
        /\ timestamp.reward.type = "float" =>
              w_ret[2] = [type |-> "float32", value |-> F32(timestamp.reward.value)]

\* a LAST timestep with reward 2^24 + 1: done is returned true, the reward 2^24
C7_Witness ==
    /\ WReturned /\ w_call = "step"
    /\ timestamp.step_type = "LAST"
    /\ timestamp.reward = PyFloat(2^24 + 1)
    /\ w_ret[2] = Float32(2^24)
    /\ w_ret[3] = TRUE
    /\ w_ret[4] = None

\* C8 as stated: for the base Wrapper, what step returns as observation and
\* what reset returns is the observation field of the underlying timestep.
C8_BaseReturnsObservationField ==
    (WReturned /\ w_kind = "Wrapper") => w_ret[1] = timestamp.observation

\* The cloud in what depthMapWrapper returned
ReturnedCloud ==
    IF return_pos THEN w_ret[1].elems[1].rows ELSE w_ret[1].data

\* C9: in every depthMapWrapper.step / reset call the depth render happens
\* exactly once and after that call's env.step / env.reset has completed; the
\* cloud returned is derived from the physics state that call produced.
C9_RenderOnceAfterEnvStep ==
    w_kind = "depthMapWrapper" =>
        /\ w_renders <= w_envcalls
        /\ w_renders <= 1
        /\ (w_call # "none" /\ w_pc \in {"observed", "idle"}) =>
              /\ w_renders = 1
              /\ w_depth.tick = w_tick0 + 1
              /\ w_depth.tick = physics.tick
              /\ w_depth.scene = physics.scene
        /\ WReturned =>
              LET near == {physics.scene[i] : i \in {k \in 1..Len(physics.scene) :
                                                       physics.scene[k][3] < 19}}
              IN  /\ \A k \in 1..Len(ReturnedCloud) :
                        ReturnedCloud[k] \in near \cup {ZeroPoint}
                  /\ near # {} => \E k \in 1..Len(ReturnedCloud) :
                                     ReturnedCloud[k] \in near

\* the second call on a depthMapWrapper, returning a point of the scene that
\* call produced
C9_Witness ==
    /\ WReturned
    /\ w_kind = "depthMapWrapper"
    /\ physics.tick = 2
    /\ w_tick0 = 1
    /\ w_renders = 1
    /\ Len(physics.scene) > 1
    /\ Len(ReturnedCloud) > 0
    /\ ReturnedCloud[1] = physics.scene[1]

====
